---- MODULE Spec2Model ----
(***************************************************************************)
(* Model of mesh/routes.go: the Routes object (four route tables behind    *)
(* one RWMutex), its accessors, and the goroutine routes.run that          *)
(* serialises recalculations, barrier waits and lazy broadcast fills.      *)
(***************************************************************************)
EXTENDS Integers, Sequences, FiniteSets, TLC

(***************************************************************************)
(* Peer names.  PeerName is an integer type in the program; the sentinel   *)
(* UnknownPeerName is its zero value.                                      *)
(***************************************************************************)
UnknownPeerName == 0

OurselfName == 1

PeerNames == {1, 2, 3, 4, 5}

\* "no peer" argument of Peer.Routes (stopAt == nil)
NilPeer == UnknownPeerName

(***************************************************************************)
(* Bounds of the model.                                                    *)
(***************************************************************************)
NumCallers == 2

MaxRecalculate == 2

MaxCallbacks == 2

Callers == 1..NumCallers

\* the names Broadcast and BroadcastAll are called with
QueryNames == {OurselfName, 2}

(***************************************************************************)
(* The topology provider (Peers, LocalPeer): a set of known peers and a    *)
(* set of directed connections <<from, to, established>>.                  *)
(***************************************************************************)
Conn(a, b, e) == <<a, b, e>>

Both(a, b, e) == {Conn(a, b, e), Conn(b, a, e)}

\* ourself alone: every other name is unknown to the peer directory
TopoAlone == [peers |-> {OurselfName}, conns |-> {}]

\* P2 <-> P1 <-> P3: ourself in the middle, all established and symmetric
TopoStar == [peers |-> {1, 2, 3}, conns |-> Both(1, 2, TRUE) \cup Both(1, 3, TRUE)]

\* as TopoStar, but the P1 <-> P3 connection is no longer established
TopoPending == [peers |-> {1, 2, 3}, conns |-> Both(1, 2, TRUE) \cup Both(1, 3, FALSE)]

\* P1 <-> P2 <-> P3 in a line, all established and symmetric
TopoLine == [peers |-> {1, 2, 3}, conns |-> Both(1, 2, TRUE) \cup Both(2, 3, TRUE)]

\* P1 in the middle of P2, P3, P4, P5
TopoStar5 ==
    [peers |-> {1, 2, 3, 4, 5},
     conns |-> Both(1, 2, TRUE) \cup Both(1, 3, TRUE) \cup Both(1, 4, TRUE)
                 \cup Both(1, 5, TRUE)]

\* P1 <-> P2 <-> P3 <-> P4 in a line
TopoLine4 ==
    [peers |-> {1, 2, 3, 4},
     conns |-> Both(1, 2, TRUE) \cup Both(2, 3, TRUE) \cup Both(3, 4, TRUE)]

\* P3 <-> P1 <-> P2, and P4 and P5 behind P2
TopoFork5 ==
    [peers |-> {1, 2, 3, 4, 5},
     conns |-> Both(1, 2, TRUE) \cup Both(1, 3, TRUE) \cup Both(2, 4, TRUE)
                 \cup Both(2, 5, TRUE)]

\* as TopoStar, with a fourth peer that is known but connected to nobody
TopoIsolated4 ==
    [peers |-> {1, 2, 3, 4}, conns |-> Both(1, 2, TRUE) \cup Both(1, 3, TRUE)]

\* the topologies Routes is constructed on when RandomNeighbours is examined
SamplerTopologies ==
    {TopoAlone, TopoStar, TopoLine, TopoStar5, TopoLine4, TopoFork5, TopoIsolated4}

\* the topologies the provider goes through, in this order
Evolution == <<TopoAlone, TopoStar, TopoPending>>

InitialTopology == Evolution[1]

(***************************************************************************)
(* Peer.forEachConnectedPeer: the remote ends of peer p's connections that *)
(* pass the filter and are not in exclude.                                 *)
(***************************************************************************)
ForEachConnectedPeer(t, p, establishedAndSymmetric, exclude) ==
    {r \in t.peers :
        /\ \E e \in BOOLEAN :
              /\ Conn(p, r, e) \in t.conns
              /\ (establishedAndSymmetric => e)
        /\ r \notin exclude
        /\ (~establishedAndSymmetric \/ Conn(r, p, TRUE) \in t.conns)}

SetMin(S) == CHOOSE x \in S : \A y \in S : x <= y

(***************************************************************************)
(* Peer.Routes: breadth-first traversal from peer, worklists sorted by     *)
(* name, stopping when stopAt is taken from the worklist.  Returns         *)
(* [found, routes]; routes maps each reached name to the first hop.        *)
(***************************************************************************)
RECURSIVE RoutesWalk(_, _, _, _, _, _, _)
RoutesWalk(t, peer, stopAt, eas, work, routes, next) ==
    IF work = {}
    THEN IF next = {}
         THEN [found |-> FALSE, routes |-> routes]
         ELSE RoutesWalk(t, peer, stopAt, eas, next, routes, {})
    ELSE LET cur == SetMin(work)
             vis == ForEachConnectedPeer(t, cur, eas, DOMAIN routes)
             ext == [r \in vis |-> IF cur = peer THEN r ELSE routes[cur]]
         IN  IF cur = stopAt
             THEN [found |-> TRUE, routes |-> routes]
             ELSE RoutesWalk(t, peer, stopAt, eas, work \ {cur},
                             routes @@ ext, next \cup vis)

PeerRoutes(t, peer, stopAt, eas) ==
    RoutesWalk(t, peer, stopAt, eas, {peer}, (peer :> UnknownPeerName), {})

(***************************************************************************)
(* Routes.calculateUnicast and Routes.calculateBroadcast.                  *)
(***************************************************************************)
calculateUnicast(t, establishedAndSymmetric) ==
    PeerRoutes(t, OurselfName, NilPeer, establishedAndSymmetric).routes

\* variant: an unknown name is treated as a peer that has reached nobody
calculateBroadcastNoShortCircuit(t, name, establishedAndSymmetric) ==
    LET r == PeerRoutes(t, name, OurselfName, establishedAndSymmetric)
    IN  IF name \notin t.peers
        THEN ForEachConnectedPeer(t, OurselfName, establishedAndSymmetric, {})
        ELSE IF r.found
             THEN ForEachConnectedPeer(t, OurselfName, establishedAndSymmetric,
                                       DOMAIN r.routes)
             ELSE {}

calculateBroadcast(t, name, establishedAndSymmetric) ==
    IF name \notin t.peers
    THEN {}
    ELSE LET r == PeerRoutes(t, name, OurselfName, establishedAndSymmetric)
         IN  IF r.found
             THEN ForEachConnectedPeer(t, OurselfName, establishedAndSymmetric,
                                       DOMAIN r.routes)
             ELSE {}

(***************************************************************************)
(* State.                                                                  *)
(***************************************************************************)
VARIABLES
    topo,           \* the topology provider's current state
    unicast,        \* routes.unicast
    unicastAll,     \* routes.unicastAll
    broadcast,      \* routes.broadcast: name -> [hops, at]
    broadcastAll,   \* routes.broadcastAll
    onChange,       \* routes.onChange
    recalculate,    \* number of signals buffered in the recalculate channel
    spc,            \* where the goroutine routes.run is
    done,           \* run: the channel received from wait (its caller)
    f,              \* run: the closure received from action
    hops,           \* closure local hops
    calc,           \* calculate(): the four freshly computed tables
    cbs,            \* calculate(): local copy of routes.onChange
    cbi,            \* calculate(): index of the next callback to invoke
    pc,             \* per caller: where it is in EnsureRecalculated / Broadcast
    arg,            \* per caller: arguments of the call in progress
    ret,            \* per caller: what its last Broadcast call for another peer returned;
                    \* path "cached": read from the table (lines 96-98, 103-106),
                    \* path "computed": received from line 114
                    \* (forgotten when the tables are replaced)
    recalcCalls,    \* history: number of Recalculate() calls completed
    calcs,          \* history: number of calculate() calls started
    sinceLast,      \* history: calculate() calls started since the last Recalculate()
    appliedSeq,     \* history: recalcCalls as read by the last calculate() that replaced the tables
    issued,         \* history: per caller, recalcCalls when EnsureRecalculated() was issued
    invoked,        \* history: callbacks invoked by the current calculate()
    registered,     \* history: Len(routes.onChange) when the current calculate() replaced the tables
    ensureCalls,    \* history: EnsureRecalculated() calls issued (2 stands for "two or more")
    computes,       \* history: calculateBroadcast calls per entry since the last replacement
    held            \* the locks the goroutine of run holds, in the order it acquired them
                    \* (tracked by LockSpec only)

tables == <<unicast, unicastAll, broadcast, broadcastAll>>

ser == <<spc, done, f, hops, calc, cbs, cbi>>

cli == <<pc, arg, ret>>

hist == <<recalcCalls, calcs, sinceLast, appliedSeq, issued, invoked, registered,
          ensureCalls, computes>>

vars == <<topo, tables, onChange, recalculate, ser, cli, hist, held>>

\* capacity of the recalculate channel: make(chan *struct{}, 1)
RecalculateCap == 1

NoCaller == 0

NoAction == [caller |-> NoCaller, name |-> UnknownPeerName, eas |-> FALSE]

NoHops == [hops |-> {}, at |-> 0]

NoCalc == [unicast |-> <<>>, unicastAll |-> <<>>, broadcast |-> <<>>,
           broadcastAll |-> <<>>, seq |-> 0]

NoArg == [name |-> UnknownPeerName, eas |-> FALSE]

NoRet == [op |-> "none", name |-> UnknownPeerName, eas |-> FALSE, hops |-> {},
          path |-> "none"]

NoComputes == [e \in BOOLEAN |-> [n \in PeerNames |-> 0]]

\* the table a lookupOrCalculate call works on: &routes.broadcast or &routes.broadcastAll
Table(eas) == IF eas THEN broadcast ELSE broadcastAll

(***************************************************************************)
(* NewRoutes: the tables hold the local peer's entries only; the           *)
(* recalculate channel is empty; run is started.                           *)
(***************************************************************************)
NewUnicastEmpty == <<>>

NewUnicast == (OurselfName :> UnknownPeerName)

NewBroadcast == (OurselfName :> [hops |-> {}, at |-> 0])

Init ==
    /\ topo = InitialTopology
    /\ unicast = NewUnicast
    /\ unicastAll = NewUnicast
    /\ broadcast = NewBroadcast
    /\ broadcastAll = NewBroadcast
    /\ onChange = <<>>
    /\ recalculate = 0
    /\ spc = "select"
    /\ done = NoCaller
    /\ f = NoAction
    /\ hops = NoHops
    /\ calc = NoCalc
    /\ cbs = <<>>
    /\ cbi = 0
    /\ pc = [c \in Callers |-> "idle"]
    /\ arg = [c \in Callers |-> NoArg]
    /\ ret = [c \in Callers |-> NoRet]
    /\ recalcCalls = 0
    /\ calcs = 0
    /\ sinceLast = 0
    /\ appliedSeq = 0
    /\ issued = [c \in Callers |-> 0]
    /\ invoked = <<>>
    /\ registered = 0
    /\ ensureCalls = 0
    /\ computes = NoComputes
    /\ held = <<>>

(***************************************************************************)
(* Read accessors.                                                         *)
(***************************************************************************)
Unicast(name) ==
    IF name \in DOMAIN unicast THEN <<unicast[name], TRUE>>
    ELSE <<UnknownPeerName, FALSE>>

UnicastAll(name) ==
    IF name \in DOMAIN unicastAll THEN <<unicastAll[name], TRUE>>
    ELSE <<UnknownPeerName, FALSE>>

(***************************************************************************)
(* The topology provider changes under its own lock.                       *)
(***************************************************************************)
TopologyChange ==
    /\ \E i \in 1..(Len(Evolution) - 1) : topo = Evolution[i] /\ topo' = Evolution[i + 1]
    /\ UNCHANGED <<held, tables, onChange, recalculate, ser, cli, hist>>

(***************************************************************************)
(* OnChange: append under the write lock.  A callback is named by its      *)
(* place in the order of registration.                                     *)
(***************************************************************************)
OnChange ==
    /\ Len(onChange) < MaxCallbacks
    /\ onChange' = Append(onChange, Len(onChange) + 1)
    /\ UNCHANGED <<held, topo, tables, recalculate, ser, cli, hist>>

(***************************************************************************)
(* Recalculate: non-blocking send into the 1-capacity channel.             *)
(***************************************************************************)
TrySendUnbounded(ch) == ch + 1

TrySend(ch) == IF ch < RecalculateCap THEN ch + 1 ELSE ch

Recalculate ==
    /\ recalcCalls < MaxRecalculate
    /\ recalculate' = TrySend(recalculate)
    /\ recalcCalls' = recalcCalls + 1
    /\ sinceLast' = 0
    /\ UNCHANGED <<held, topo, tables, onChange, ser, cli>>
    /\ UNCHANGED <<calcs, appliedSeq, issued, invoked, registered, ensureCalls, computes>>

(***************************************************************************)
(* EnsureRecalculated: done := make(chan struct{}); routes.wait <- done;   *)
(* <-done.                                                                 *)
(***************************************************************************)
EnsureRecalculated(c) ==
    /\ pc[c] = "idle"
    /\ pc' = [pc EXCEPT ![c] = "waitSend"]
    /\ ret' = [ret EXCEPT ![c] = NoRet]
    /\ issued' = [issued EXCEPT ![c] = recalcCalls]
    /\ ensureCalls' = IF ensureCalls < 2 THEN ensureCalls + 1 ELSE ensureCalls
    /\ UNCHANGED <<held, topo, tables, onChange, recalculate, ser, arg>>
    /\ UNCHANGED <<recalcCalls, calcs, sinceLast, appliedSeq, invoked, registered, computes>>

\* <-done completes once run has closed done; the call returns
EnsureReturn(c) ==
    /\ pc[c] = "doneClosed"
    /\ pc' = [pc EXCEPT ![c] = "idle"]
    /\ issued' = [issued EXCEPT ![c] = 0]
    /\ UNCHANGED <<held, topo, tables, onChange, recalculate, ser, arg, ret>>
    /\ UNCHANGED <<recalcCalls, calcs, sinceLast, appliedSeq, invoked, registered, ensureCalls, computes>>

(***************************************************************************)
(* lookupOrCalculate, caller side.  Fast path: read the table under the    *)
(* read lock.  On a miss the caller blocks sending the closure on          *)
(* routes.action and then receives from res.                               *)
\* variant: on a miss the caller computes and stores the entry itself
LookupDirect(c, name, eas) ==
    /\ pc[c] = "idle"
    /\ IF name \in DOMAIN Table(eas)
       THEN /\ ret' = [ret EXCEPT ![c] =
                         IF name = OurselfName THEN NoRet
                         ELSE [op |-> "broadcast", name |-> name, eas |-> eas,
                               hops |-> Table(eas)[name].hops, path |-> "cached"]]
            /\ UNCHANGED <<broadcast, broadcastAll>>
       ELSE LET new == [hops |-> calculateBroadcast(topo, name, eas), at |-> recalcCalls]
            IN  /\ ret' = [ret EXCEPT ![c] =
                             [op |-> "broadcast", name |-> name, eas |-> eas,
                              hops |-> new.hops, path |-> "computed"]]
                /\ IF eas
                   THEN broadcast' = broadcast @@ (name :> new) /\ broadcastAll' = broadcastAll
                   ELSE broadcastAll' = broadcastAll @@ (name :> new) /\ broadcast' = broadcast
    /\ UNCHANGED <<held, topo, unicast, unicastAll, onChange, recalculate, ser, pc, arg, hist>>

(***************************************************************************)
Lookup(c, name, eas) ==
    /\ pc[c] = "idle"
    /\ IF name \in DOMAIN Table(eas)
       THEN /\ ret' = [ret EXCEPT ![c] =
                         IF name = OurselfName THEN NoRet
                         ELSE [op |-> "broadcast", name |-> name, eas |-> eas,
                               hops |-> Table(eas)[name].hops, path |-> "cached"]]
            /\ UNCHANGED <<pc, arg>>
       ELSE /\ pc' = [pc EXCEPT ![c] = "actionSend"]
            /\ arg' = [arg EXCEPT ![c] = [name |-> name, eas |-> eas]]
            /\ ret' = [ret EXCEPT ![c] = NoRet]
    /\ UNCHANGED <<held, topo, tables, onChange, recalculate, ser, hist>>

Broadcast(c, name) == Lookup(c, name, TRUE)

BroadcastAll(c, name) == Lookup(c, name, FALSE)

(***************************************************************************)
(* run: the outer select.                                                  *)
(***************************************************************************)
\* case <-recalculate: routes.calculate()
RunRecvRecalculate ==
    /\ spc = "select"
    /\ recalculate > 0
    /\ recalculate' = recalculate - 1
    /\ spc' = "calculate"
    /\ calcs' = calcs + 1
    /\ sinceLast' = sinceLast + 1
    /\ UNCHANGED <<held, topo, tables, onChange, done, f, hops, calc, cbs, cbi, cli>>
    /\ UNCHANGED <<recalcCalls, appliedSeq, issued, invoked, registered, ensureCalls, computes>>

\* case done := <-wait
RunRecvWait(c) ==
    /\ spc = "select"
    /\ pc[c] = "waitSend"
    /\ done' = c
    /\ pc' = [pc EXCEPT ![c] = "doneRecv"]
    /\ spc' = "drain"
    /\ UNCHANGED <<held, topo, tables, onChange, recalculate, f, hops, calc, cbs, cbi, arg, ret, hist>>

\* variant: the inner select is left out
RunDrainSkip ==
    /\ spc = "drain"
    /\ spc' = "close"
    /\ UNCHANGED <<recalculate, calcs, sinceLast>>
    /\ UNCHANGED <<held, topo, tables, onChange, done, f, hops, calc, cbs, cbi, cli>>
    /\ UNCHANGED <<recalcCalls, appliedSeq, issued, invoked, registered, ensureCalls, computes>>

\* variant: the inner select has no default and calculates whether or not a
\* signal is pending
RunDrainAlways ==
    /\ spc = "drain"
    /\ recalculate' = IF recalculate > 0 THEN recalculate - 1 ELSE recalculate
    /\ spc' = "calculate"
    /\ calcs' = calcs + 1
    /\ sinceLast' = sinceLast + 1
    /\ UNCHANGED <<held, topo, tables, onChange, done, f, hops, calc, cbs, cbi, cli>>
    /\ UNCHANGED <<recalcCalls, appliedSeq, issued, invoked, registered, ensureCalls, computes>>

\* variant: the inner select takes the pending signal and does not calculate
RunDrainDiscard ==
    /\ spc = "drain"
    /\ recalculate' = 0
    /\ spc' = "close"
    /\ UNCHANGED <<calcs, sinceLast>>
    /\ UNCHANGED <<held, topo, tables, onChange, done, f, hops, calc, cbs, cbi, cli>>
    /\ UNCHANGED <<recalcCalls, appliedSeq, issued, invoked, registered, ensureCalls, computes>>

\* the inner select: case <-recalculate: routes.calculate(); default:
RunDrain ==
    /\ spc = "drain"
    /\ IF recalculate > 0
       THEN /\ recalculate' = recalculate - 1
            /\ spc' = "calculate"
            /\ calcs' = calcs + 1
            /\ sinceLast' = sinceLast + 1
       ELSE /\ spc' = "close"
            /\ UNCHANGED <<recalculate, calcs, sinceLast>>
    /\ UNCHANGED <<held, topo, tables, onChange, done, f, hops, calc, cbs, cbi, cli>>
    /\ UNCHANGED <<recalcCalls, appliedSeq, issued, invoked, registered, ensureCalls, computes>>

\* variant: run goes back to the select without closing done
RunCloseLeak ==
    /\ spc = "close"
    /\ pc' = pc
    /\ done' = NoCaller
    /\ spc' = "select"
    /\ UNCHANGED <<held, topo, tables, onChange, recalculate, f, hops, calc, cbs, cbi, arg, ret, hist>>

\* close(done)
RunClose ==
    /\ spc = "close"
    /\ pc' = [pc EXCEPT ![done] = "doneClosed"]
    /\ done' = NoCaller
    /\ spc' = "select"
    /\ UNCHANGED <<held, topo, tables, onChange, recalculate, f, hops, calc, cbs, cbi, arg, ret, hist>>

\* case f := <-action
RunRecvAction(c) ==
    /\ spc = "select"
    /\ pc[c] = "actionSend"
    /\ f' = [caller |-> c, name |-> arg[c].name, eas |-> arg[c].eas]
    /\ pc' = [pc EXCEPT ![c] = "resRecv"]
    /\ spc' = "actLookup"
    /\ UNCHANGED <<held, topo, tables, onChange, recalculate, done, hops, calc, cbs, cbi, arg, ret, hist>>

(***************************************************************************)
(* calculate.                                                              *)
(***************************************************************************)
\* variant: the new broadcast tables are not seeded with the local peer's entry
CalcTablesUnseeded(t, seq) ==
    [unicast |-> calculateUnicast(t, TRUE),
     unicastAll |-> calculateUnicast(t, FALSE),
     broadcast |-> <<>>,
     broadcastAll |-> <<>>,
     seq |-> seq]

\* variant: the two filters are mixed up
CalcTablesSwapped(t, seq) ==
    [unicast |-> calculateUnicast(t, FALSE),
     unicastAll |-> calculateUnicast(t, TRUE),
     broadcast |-> (OurselfName :>
                      [hops |-> calculateBroadcast(t, OurselfName, TRUE), at |-> seq]),
     broadcastAll |-> (OurselfName :>
                         [hops |-> calculateBroadcast(t, OurselfName, FALSE), at |-> seq]),
     seq |-> seq]

\* lines 194-205: the four new tables, computed under the two read locks
CalcTables(t, seq) ==
    [unicast |-> calculateUnicast(t, TRUE),
     unicastAll |-> calculateUnicast(t, FALSE),
     broadcast |-> (OurselfName :>
                      [hops |-> calculateBroadcast(t, OurselfName, TRUE), at |-> seq]),
     broadcastAll |-> (OurselfName :>
                         [hops |-> calculateBroadcast(t, OurselfName, FALSE), at |-> seq]),
     seq |-> seq]

CalculateRead ==
    /\ spc = "calculate"
    /\ calc' = CalcTables(topo, recalcCalls)
    /\ spc' = "replace"
    /\ UNCHANGED <<held, topo, tables, onChange, recalculate, done, f, hops, cbs, cbi, cli, hist>>

\* variant: the new broadcast tables are merged into the old ones
CalculateReplaceKeep ==
    /\ spc = "replace"
    /\ unicast' = calc.unicast
    /\ unicastAll' = calc.unicastAll
    /\ broadcast' = calc.broadcast @@ broadcast
    /\ broadcastAll' = calc.broadcastAll @@ broadcastAll
    /\ cbs' = onChange
    /\ cbi' = 1
    /\ calc' = NoCalc
    /\ spc' = "callbacks"
    /\ appliedSeq' = calc.seq
    /\ invoked' = <<>>
    /\ registered' = Len(onChange)
    /\ computes' = NoComputes
    /\ ret' = [c \in Callers |-> NoRet]
    /\ UNCHANGED <<held, topo, onChange, recalculate, done, f, hops, pc, arg>>
    /\ UNCHANGED <<recalcCalls, calcs, sinceLast, issued, ensureCalls>>

\* variant: the callbacks are copied in reverse order
CalculateReplaceReversed ==
    /\ spc = "replace"
    /\ unicast' = calc.unicast
    /\ unicastAll' = calc.unicastAll
    /\ broadcast' = calc.broadcast
    /\ broadcastAll' = calc.broadcastAll
    /\ cbs' = [i \in 1..Len(onChange) |-> onChange[Len(onChange) + 1 - i]]
    /\ cbi' = 1
    /\ calc' = NoCalc
    /\ spc' = "callbacks"
    /\ appliedSeq' = calc.seq
    /\ invoked' = <<>>
    /\ registered' = Len(onChange)
    /\ computes' = NoComputes
    /\ ret' = [c \in Callers |-> NoRet]
    /\ UNCHANGED <<held, topo, onChange, recalculate, done, f, hops, pc, arg>>
    /\ UNCHANGED <<recalcCalls, calcs, sinceLast, issued, ensureCalls>>

\* variant: only the unicast tables are replaced
CalculateReplacePartial ==
    /\ spc = "replace"
    /\ unicast' = calc.unicast
    /\ unicastAll' = calc.unicastAll
    /\ UNCHANGED <<broadcast, broadcastAll>>
    /\ cbs' = onChange
    /\ cbi' = 1
    /\ calc' = NoCalc
    /\ spc' = "callbacks"
    /\ appliedSeq' = calc.seq
    /\ invoked' = <<>>
    /\ registered' = Len(onChange)
    /\ computes' = NoComputes
    /\ ret' = [c \in Callers |-> NoRet]
    /\ UNCHANGED <<held, topo, onChange, recalculate, done, f, hops, pc, arg>>
    /\ UNCHANGED <<recalcCalls, calcs, sinceLast, issued, ensureCalls>>

\* lines 207-213: replace the tables and copy onChange under the write lock
CalculateReplace ==
    /\ spc = "replace"
    /\ unicast' = calc.unicast
    /\ unicastAll' = calc.unicastAll
    /\ broadcast' = calc.broadcast
    /\ broadcastAll' = calc.broadcastAll
    /\ cbs' = onChange
    /\ cbi' = 1
    /\ calc' = NoCalc
    /\ spc' = "callbacks"
    /\ appliedSeq' = calc.seq
    /\ invoked' = <<>>
    /\ registered' = Len(onChange)
    /\ computes' = NoComputes
    /\ ret' = [c \in Callers |-> NoRet]
    /\ UNCHANGED <<held, topo, onChange, recalculate, done, f, hops, pc, arg>>
    /\ UNCHANGED <<recalcCalls, calcs, sinceLast, issued, ensureCalls>>

(***************************************************************************)
(* lines 215-217: the callbacks, run by the goroutine of run.  What a      *)
(* callback does is the registrant's choice; here each invocation makes    *)
(* one call into Routes.                                                   *)
(***************************************************************************)
\* the callback reads: Unicast, UnicastAll, RandomNeighbours
CallbackRead ==
    /\ spc = "callbacks"
    /\ cbi <= Len(cbs)
    /\ \E n \in PeerNames : Unicast(n) \in (PeerNames \cup {UnknownPeerName}) \X BOOLEAN
    /\ cbi' = cbi + 1
    /\ invoked' = Append(invoked, cbs[cbi])
    /\ UNCHANGED <<held, topo, tables, onChange, recalculate, spc, done, f, hops, calc, cbs, cli>>
    /\ UNCHANGED <<recalcCalls, calcs, sinceLast, appliedSeq, issued, registered, ensureCalls, computes>>

\* the callback calls Recalculate()
CallbackRecalculate ==
    /\ spc = "callbacks"
    /\ cbi <= Len(cbs)
    /\ recalcCalls < MaxRecalculate
    /\ recalculate' = TrySend(recalculate)
    /\ recalcCalls' = recalcCalls + 1
    /\ sinceLast' = 0
    /\ cbi' = cbi + 1
    /\ invoked' = Append(invoked, cbs[cbi])
    /\ UNCHANGED <<held, topo, tables, onChange, spc, done, f, hops, calc, cbs, cli>>
    /\ UNCHANGED <<calcs, appliedSeq, issued, registered, ensureCalls, computes>>

\* the callback calls Broadcast(name) or BroadcastAll(name): on a hit it
\* returns; on a miss it blocks sending on routes.action, which only the
\* goroutine it runs on receives from
CallbackLookup(name, eas) ==
    /\ spc = "callbacks"
    /\ cbi <= Len(cbs)
    /\ IF name \in DOMAIN Table(eas)
       THEN /\ cbi' = cbi + 1
            /\ spc' = spc
       ELSE /\ spc' = "callbackActionSend"
            /\ cbi' = cbi
    /\ invoked' = Append(invoked, cbs[cbi])
    /\ UNCHANGED <<held, topo, tables, onChange, recalculate, done, f, hops, calc, cbs, cli>>
    /\ UNCHANGED <<recalcCalls, calcs, sinceLast, appliedSeq, issued, registered, ensureCalls, computes>>

\* the loop over onChange is done: calculate returns to run
CalculateReturn ==
    /\ spc = "callbacks"
    /\ cbi > Len(cbs)
    /\ spc' = IF done = NoCaller THEN "select" ELSE "close"
    /\ cbs' = <<>>
    /\ cbi' = 0
    /\ invoked' = <<>>
    /\ registered' = 0
    /\ UNCHANGED <<held, topo, tables, onChange, recalculate, done, f, hops, calc, cli>>
    /\ UNCHANGED <<recalcCalls, calcs, sinceLast, appliedSeq, issued, ensureCalls, computes>>

(***************************************************************************)
(* The closure of lookupOrCalculate, run by run (f()).                     *)
(***************************************************************************)
\* variant: the closure does not look again
ActionLookupNoRecheck ==
    /\ spc = "actLookup"
    /\ spc' = "actCalculate"
    /\ hops' = hops
    /\ UNCHANGED <<held, topo, tables, onChange, recalculate, done, f, calc, cbs, cbi, cli, hist>>

\* lines 102-108: look again under the read lock
ActionLookup ==
    /\ spc = "actLookup"
    /\ IF f.name \in DOMAIN Table(f.eas)
       THEN /\ hops' = Table(f.eas)[f.name]
            /\ spc' = "actReply"
       ELSE /\ spc' = "actCalculate"
            /\ hops' = hops
    /\ UNCHANGED <<held, topo, tables, onChange, recalculate, done, f, calc, cbs, cbi, cli, hist>>

\* line 106: res <- hops; return
ActionReply ==
    /\ spc = "actReply"
    /\ pc[f.caller] = "resRecv"
    /\ ret' = [ret EXCEPT ![f.caller] =
                 [op |-> "broadcast", name |-> f.name, eas |-> f.eas,
                  hops |-> hops.hops, path |-> "cached"]]
    /\ pc' = [pc EXCEPT ![f.caller] = "idle"]
    /\ arg' = [arg EXCEPT ![f.caller] = NoArg]
    /\ f' = NoAction
    /\ hops' = NoHops
    /\ spc' = "select"
    /\ UNCHANGED <<held, topo, tables, onChange, recalculate, done, calc, cbs, cbi, hist>>

\* lines 109-113: calculateBroadcast under the two read locks
ActionCalculate ==
    /\ spc = "actCalculate"
    /\ hops' = [hops |-> calculateBroadcast(topo, f.name, f.eas), at |-> recalcCalls]
    /\ computes' = [computes EXCEPT ![f.eas][f.name] = @ + 1]
    /\ spc' = "actSend"
    /\ UNCHANGED <<held, topo, tables, onChange, recalculate, done, f, calc, cbs, cbi, cli>>
    /\ UNCHANGED <<recalcCalls, calcs, sinceLast, appliedSeq, issued, invoked, registered, ensureCalls>>

\* variant: the closure returns after res <- hops and stores nothing
ActionSendNoStore ==
    /\ spc = "actSend"
    /\ pc[f.caller] = "resRecv"
    /\ ret' = [ret EXCEPT ![f.caller] =
                 [op |-> "broadcast", name |-> f.name, eas |-> f.eas,
                  hops |-> hops.hops, path |-> "computed"]]
    /\ pc' = [pc EXCEPT ![f.caller] = "idle"]
    /\ arg' = [arg EXCEPT ![f.caller] = NoArg]
    /\ f' = NoAction
    /\ hops' = NoHops
    /\ spc' = "select"
    /\ UNCHANGED <<held, topo, tables, onChange, recalculate, done, calc, cbs, cbi, hist>>

\* line 114: res <- hops; the caller's <-res completes and it returns
ActionSend ==
    /\ spc = "actSend"
    /\ pc[f.caller] = "resRecv"
    /\ ret' = [ret EXCEPT ![f.caller] =
                 [op |-> "broadcast", name |-> f.name, eas |-> f.eas,
                  hops |-> hops.hops, path |-> "computed"]]
    /\ pc' = [pc EXCEPT ![f.caller] = "idle"]
    /\ arg' = [arg EXCEPT ![f.caller] = NoArg]
    /\ spc' = "actStore"
    /\ UNCHANGED <<held, topo, tables, onChange, recalculate, done, f, hops, calc, cbs, cbi, hist>>

\* variant: the entry is written into both broadcast tables
ActionStoreBoth ==
    /\ spc = "actStore"
    /\ broadcast' = [n \in DOMAIN broadcast \cup {f.name} |->
                       IF n = f.name THEN hops ELSE broadcast[n]]
    /\ broadcastAll' = [n \in DOMAIN broadcastAll \cup {f.name} |->
                          IF n = f.name THEN hops ELSE broadcastAll[n]]
    /\ f' = NoAction
    /\ hops' = NoHops
    /\ spc' = "select"
    /\ UNCHANGED <<held, topo, unicast, unicastAll, onChange, recalculate, done, calc, cbs, cbi, cli, hist>>

\* lines 115-117: (*broadcast)[name] = hops under the write lock
ActionStore ==
    /\ spc = "actStore"
    /\ LET new == [n \in DOMAIN Table(f.eas) \cup {f.name} |->
                     IF n = f.name THEN hops ELSE Table(f.eas)[n]]
       IN  IF f.eas
           THEN broadcast' = new /\ broadcastAll' = broadcastAll
           ELSE broadcastAll' = new /\ broadcast' = broadcast
    /\ f' = NoAction
    /\ hops' = NoHops
    /\ spc' = "select"
    /\ UNCHANGED <<held, topo, unicast, unicastAll, onChange, recalculate, done, calc, cbs, cbi, cli, hist>>

(***************************************************************************)
(* The program.                                                            *)
(***************************************************************************)
Next ==
    \/ TopologyChange
    \/ OnChange
    \/ Recalculate
    \/ \E c \in Callers : EnsureRecalculated(c)
    \/ \E c \in Callers : EnsureReturn(c)
    \/ \E c \in Callers, n \in QueryNames : Broadcast(c, n)
    \/ \E c \in Callers, n \in QueryNames : BroadcastAll(c, n)
    \/ RunRecvRecalculate
    \/ \E c \in Callers : RunRecvWait(c)
    \/ RunDrain
    \/ RunClose
    \/ \E c \in Callers : RunRecvAction(c)
    \/ CalculateRead
    \/ CalculateReplace
    \/ CallbackRead
    \/ CallbackRecalculate
    \/ \E n \in QueryNames, e \in BOOLEAN : CallbackLookup(n, e)
    \/ CalculateReturn
    \/ ActionLookup
    \/ ActionReply
    \/ ActionCalculate
    \/ ActionSend
    \/ ActionStore

Spec == Init /\ [][Next]_vars

(***************************************************************************)
(* RandomNeighbours.  The map routes.unicastAll is ranged over in an order *)
(* the runtime chooses: any order of its keys.                             *)
(***************************************************************************)
\* int(math.Log2(float64(n))), for n >= 1: the table always holds the local
\* peer's entry
RECURSIVE CeilLog2(_)
CeilLog2(n) == IF n <= 1 THEN 0 ELSE 1 + CeilLog2((n + 1) \div 2)

RECURSIVE FloorLog2(_)
FloorLog2(n) == IF n <= 1 THEN 0 ELSE 1 + FloorLog2(n \div 2)

\* the orders in which the keys S of a map can be ranged over
RECURSIVE Orders(_)
Orders(S) ==
    IF S = {}
    THEN {<<>>}
    ELSE UNION {{<<x>> \o o : o \in Orders(S \ {x})} : x \in S}

\* variant: the excluded name is not filtered out
RECURSIVE RandomNeighboursLoopNoExcept(_, _, _, _, _, _)
RandomNeighboursLoopNoExcept(table, order, i, except, count, destinations) ==
    IF i > Len(order)
    THEN destinations
    ELSE LET dst == table[order[i]]
         IN  IF dst # UnknownPeerName
             THEN IF Cardinality(destinations \cup {dst}) >= count
                  THEN destinations \cup {dst}
                  ELSE RandomNeighboursLoopNoExcept(table, order, i + 1, except, count,
                                                    destinations \cup {dst})
             ELSE RandomNeighboursLoopNoExcept(table, order, i + 1, except, count,
                                               destinations)

\* lines 140-147: the loop over routes.unicastAll, from the i-th key on
RECURSIVE RandomNeighboursLoop(_, _, _, _, _, _)
RandomNeighboursLoop(table, order, i, except, count, destinations) ==
    IF i > Len(order)
    THEN destinations
    ELSE LET dst == table[order[i]]
         IN  IF dst # UnknownPeerName /\ dst # except
             THEN IF Cardinality(destinations \cup {dst}) >= count
                  THEN destinations \cup {dst}
                  ELSE RandomNeighboursLoop(table, order, i + 1, except, count,
                                            destinations \cup {dst})
             ELSE RandomNeighboursLoop(table, order, i + 1, except, count, destinations)

\* lines 134-153: what the call can return, over all orders of the range
RandomNeighboursResults(table, except) ==
    LET count == FloorLog2(Cardinality(DOMAIN table))
    IN  {RandomNeighboursLoop(table, order, 1, except, count, {}) :
            order \in Orders(DOMAIN table)}

RandomNeighbours(c, except) ==
    /\ pc[c] = "idle"
    /\ \E res \in RandomNeighboursResults(unicastAll, except) :
          ret' = [ret EXCEPT ![c] =
                    [op |-> "random", name |-> except, eas |-> FALSE,
                     hops |-> res, path |-> "none"]]
    /\ UNCHANGED <<held, topo, tables, onChange, recalculate, ser, pc, arg, hist>>

\* NewRoutes on any of the sampler's topologies
SamplerInit ==
    /\ topo \in SamplerTopologies
    /\ unicast = NewUnicast
    /\ unicastAll = NewUnicast
    /\ broadcast = NewBroadcast
    /\ broadcastAll = NewBroadcast
    /\ onChange = <<>>
    /\ recalculate = 0
    /\ spc = "select"
    /\ done = NoCaller
    /\ f = NoAction
    /\ hops = NoHops
    /\ calc = NoCalc
    /\ cbs = <<>>
    /\ cbi = 0
    /\ pc = [c \in Callers |-> "idle"]
    /\ arg = [c \in Callers |-> NoArg]
    /\ ret = [c \in Callers |-> NoRet]
    /\ recalcCalls = 0
    /\ calcs = 0
    /\ sinceLast = 0
    /\ appliedSeq = 0
    /\ issued = [c \in Callers |-> 0]
    /\ invoked = <<>>
    /\ registered = 0
    /\ ensureCalls = 0
    /\ computes = NoComputes
    /\ held = <<>>

\* recalculations and calls of RandomNeighbours
SamplerNext ==
    \/ Recalculate
    \/ RunRecvRecalculate
    \/ CalculateRead
    \/ CalculateReplace
    \/ CalculateReturn
    \/ \E c \in Callers, except \in PeerNames \cup {UnknownPeerName} :
          RandomNeighbours(c, except)

SamplerSpec == SamplerInit /\ [][SamplerNext]_vars

(***************************************************************************)
(* The locks taken by the goroutine of run: routes.peers and               *)
(* routes.ourself (read), and the RWMutex of Routes (read and write).      *)
(* held lists them in the order of acquisition.  The steps between two     *)
(* lock operations are the actions above, taken while held is what the     *)
(* code holds at that place.                                               *)
(***************************************************************************)
PeersR == "peers.R"

OurselfR == "ourself.R"

RoutesR == "routes.R"

RoutesW == "routes.W"

Holds(l) == \E i \in 1..Len(held) : held[i] = l

\* one Lock, RLock, Unlock or RUnlock by run at place at
LockStep(at, before, after) ==
    /\ spc = at
    /\ held = before
    /\ held' = after
    /\ UNCHANGED <<topo, tables, onChange, recalculate, ser, cli, hist>>

\* variant: the two read locks are taken in the reverse order
CalculateRLockOurselfFirst == LockStep("calculate", <<>>, <<OurselfR>>)

\* line 194: routes.peers.RLock()
CalculateRLockPeers == LockStep("calculate", <<>>, <<PeersR>>)

\* line 195: routes.ourself.RLock()
CalculateRLockOurself == LockStep("calculate", <<PeersR>>, <<PeersR, OurselfR>>)

\* lines 196-203
LockedCalculateRead == held = <<PeersR, OurselfR>> /\ CalculateRead

\* line 204: routes.ourself.RUnlock()
CalculateRUnlockOurself == LockStep("replace", <<PeersR, OurselfR>>, <<PeersR>>)

\* line 205: routes.peers.RUnlock()
CalculateRUnlockPeers == LockStep("replace", <<PeersR>>, <<>>)

\* line 207: routes.Lock()
CalculateLock == LockStep("replace", <<>>, <<RoutesW>>)

\* lines 208-212
LockedCalculateReplace == held = <<RoutesW>> /\ CalculateReplace

\* line 213: routes.Unlock()
CalculateUnlock == LockStep("callbacks", <<RoutesW>>, <<>>)

\* lines 215-217
LockedCallbackRead == held = <<>> /\ CallbackRead

LockedCalculateReturn == held = <<>> /\ CalculateReturn

\* line 102: routes.RLock()
ActionRLock == LockStep("actLookup", <<>>, <<RoutesR>>)

\* line 103
LockedActionLookup == held = <<RoutesR>> /\ ActionLookup

\* line 104: routes.RUnlock()
ActionRUnlock ==
    /\ spc \in {"actReply", "actCalculate"}
    /\ held = <<RoutesR>>
    /\ held' = <<>>
    /\ UNCHANGED <<topo, tables, onChange, recalculate, ser, cli, hist>>

\* lines 105-107
LockedActionReply == held = <<>> /\ ActionReply

\* line 109: routes.peers.RLock()
ActionRLockPeers == LockStep("actCalculate", <<>>, <<PeersR>>)

\* line 110: routes.ourself.RLock()
ActionRLockOurself == LockStep("actCalculate", <<PeersR>>, <<PeersR, OurselfR>>)

\* line 111
LockedActionCalculate == held = <<PeersR, OurselfR>> /\ ActionCalculate

\* line 112: routes.ourself.RUnlock()
ActionRUnlockOurself == LockStep("actSend", <<PeersR, OurselfR>>, <<PeersR>>)

\* line 113: routes.peers.RUnlock()
ActionRUnlockPeers == LockStep("actSend", <<PeersR>>, <<>>)

\* line 114
LockedActionSend == held = <<>> /\ ActionSend

\* line 115: routes.Lock()
ActionLock == LockStep("actStore", <<>>, <<RoutesW>>)

\* line 116
LockedActionStore == held = <<RoutesW>> /\ ActionStore

\* line 117: routes.Unlock(); f returns to run
ActionUnlock == LockStep("select", <<RoutesW>>, <<>>)

\* run takes the next request when f or calculate has returned
LockedRunRecvRecalculate == held = <<>> /\ RunRecvRecalculate

LockedRunRecvAction(c) == held = <<>> /\ RunRecvAction(c)

\* the topology provider writes under its own locks
LockedTopologyChange == ~Holds(PeersR) /\ ~Holds(OurselfR) /\ TopologyChange

\* line 51: routes.Lock() by the caller of OnChange
LockedOnChange == ~Holds(RoutesR) /\ ~Holds(RoutesW) /\ OnChange

\* line 94: routes.RLock() by the caller of lookupOrCalculate
LockedLookup(c, name, eas) == ~Holds(RoutesW) /\ Lookup(c, name, eas)

LockNext ==
    \/ LockedTopologyChange
    \/ LockedOnChange
    \/ Recalculate
    \/ \E c \in Callers, n \in QueryNames, e \in BOOLEAN : LockedLookup(c, n, e)
    \/ LockedRunRecvRecalculate
    \/ \E c \in Callers : LockedRunRecvAction(c)
    \/ CalculateRLockPeers
    \/ CalculateRLockOurself
    \/ LockedCalculateRead
    \/ CalculateRUnlockOurself
    \/ CalculateRUnlockPeers
    \/ CalculateLock
    \/ LockedCalculateReplace
    \/ CalculateUnlock
    \/ LockedCallbackRead
    \/ LockedCalculateReturn
    \/ ActionRLock
    \/ LockedActionLookup
    \/ ActionRUnlock
    \/ LockedActionReply
    \/ ActionRLockPeers
    \/ ActionRLockOurself
    \/ LockedActionCalculate
    \/ ActionRUnlockOurself
    \/ ActionRUnlockPeers
    \/ LockedActionSend
    \/ ActionLock
    \/ LockedActionStore
    \/ ActionUnlock

LockSpec == Init /\ [][LockNext]_vars

(***************************************************************************)
(* Progress.  The callbacks considered here return: a callback that looks  *)
(* up a broadcast entry finds it in the table.  The goroutine of run is    *)
(* scheduled whenever it can take a step, the read locks of the topology   *)
(* are granted, a caller whose done channel is closed returns (weak        *)
(* fairness); the select statement of run chooses among its ready cases at *)
(* random and the senders blocked on a channel are served in the order of  *)
(* their arrival, so a case that is ready again and again is taken (strong *)
(* fairness).                                                              *)
(***************************************************************************)
\* a callback that calls Broadcast(name) or BroadcastAll(name) and hits
CallbackLookupHit(name, eas) ==
    /\ name \in DOMAIN Table(eas)
    /\ CallbackLookup(name, eas)

\* one callback runs and returns
Callback ==
    \/ CallbackRead
    \/ CallbackRecalculate
    \/ \E n \in QueryNames, e \in BOOLEAN : CallbackLookupHit(n, e)

\* the steps of run between two visits of the outer select
RunStep ==
    \/ RunDrain
    \/ RunClose
    \/ CalculateRead
    \/ CalculateReplace
    \/ Callback
    \/ CalculateReturn
    \/ ActionLookup
    \/ ActionReply
    \/ ActionCalculate
    \/ ActionSend
    \/ ActionStore

\* the topology stays as it is at construction and the callers use
\* Broadcast: progress depends on neither the topology nor the table
LiveNext ==
    \/ OnChange
    \/ Recalculate
    \/ \E c \in Callers : EnsureRecalculated(c)
    \/ \E c \in Callers : EnsureReturn(c)
    \/ \E c \in Callers, n \in QueryNames : Broadcast(c, n)
    \/ RunRecvRecalculate
    \/ \E c \in Callers : RunRecvWait(c)
    \/ \E c \in Callers : RunRecvAction(c)
    \/ RunStep

Fairness ==
    /\ WF_vars(RunStep)
    /\ \A c \in Callers : WF_vars(EnsureReturn(c))
    /\ SF_vars(RunRecvRecalculate)
    /\ \A c \in Callers : SF_vars(RunRecvWait(c))
    /\ \A c \in Callers : SF_vars(RunRecvAction(c))

LiveSpec == Init /\ [][LiveNext]_vars /\ Fairness

(***************************************************************************)
(* Properties.                                                             *)
(***************************************************************************)
\* every broadcast entry that exists: stored in a table or held by the closure
Entries ==
    {broadcast[n] : n \in DOMAIN broadcast}
    \cup {broadcastAll[n] : n \in DOMAIN broadcastAll}
    \cup (IF spc \in {"actReply", "actSend", "actStore"} THEN {hops} ELSE {})

ActionStates == {"actLookup", "actReply", "actCalculate", "actSend", "actStore"}

\* C1: when run has closed the done channel of an EnsureRecalculated() call,
\* the tables were last replaced by a calculate() that read the topology
\* after every Recalculate() call completed before EnsureRecalculated() was
\* issued, also when the send of that Recalculate() was dropped.
C1_Barrier ==
    \A c \in Callers : pc[c] = "doneClosed" => appliedSeq >= issued[c]

\* two Recalculate() calls, the second one dropped, one calculate(), done closed
C1_Witness ==
    \E c \in Callers :
        /\ pc[c] = "doneClosed"
        /\ issued[c] = 2
        /\ calcs = 1
        /\ recalculate = 0
        /\ appliedSeq = 2

\* N >= 1 Recalculate() calls, then the only EnsureRecalculated() call, which
\* run has acknowledged, and no Recalculate() since it was issued
Burst(c) ==
    /\ pc[c] = "doneClosed"
    /\ ensureCalls = 1
    /\ recalcCalls >= 1
    /\ issued[c] = recalcCalls

\* C2 as stated: N Recalculate() calls followed by one EnsureRecalculated()
\* lead to at most one calculate() up to the return of EnsureRecalculated()
\* (no callback is registered, so every Recalculate() is a caller's).
C2_AtMostOne ==
    \A c \in Callers : (Burst(c) /\ onChange = <<>>) => calcs <= 1

\* C2: N Recalculate() calls followed by one EnsureRecalculated() lead to at
\* least one and at most N calculate() calls up to the return of
\* EnsureRecalculated(), and at most one calculate() starts after the last
\* Recalculate() call.
C2_AtMostN ==
    /\ sinceLast <= 1
    /\ \A c \in Callers : Burst(c) => (1 <= calcs /\ calcs <= recalcCalls)

\* two Recalculate() calls by callers, each one followed by its own calculate()
C2_Witness ==
    \E c \in Callers :
        /\ Burst(c)
        /\ onChange = <<>>
        /\ recalcCalls = 2
        /\ calcs = 2

\* C3: a callback run by calculate() that calls Broadcast(X) or
\* BroadcastAll(X) returns: run is never blocked inside a callback on the
\* send to routes.action.
C3_CallbackReturns == spc # "callbackActionSend"

\* C4: between two replacements of the tables all Broadcast(X) (resp.
\* BroadcastAll(X)) calls that returned have returned the same set, which is
\* the set in the table once it is stored, and calculateBroadcast ran at
\* most once for X, whatever the topology did in between.
C4_Coherence ==
    /\ \A c, d \in Callers :
          (/\ ret[c].op = "broadcast"
           /\ ret[d].op = "broadcast"
           /\ ret[c].name = ret[d].name
           /\ ret[c].eas = ret[d].eas) => ret[c].hops = ret[d].hops
    /\ \A c \in Callers :
          (ret[c].op = "broadcast" /\ ret[c].name \in DOMAIN Table(ret[c].eas))
              => Table(ret[c].eas)[ret[c].name].hops = ret[c].hops
    /\ \A e \in BOOLEAN, n \in PeerNames : computes[e][n] <= 1

\* one caller got the computed set, another one the cached set, and the
\* topology now gives a different set
C4_Witness ==
    \E c, d \in Callers :
        /\ ret[c].path = "computed"
        /\ ret[d].path = "cached"
        /\ ret[c].name = ret[d].name
        /\ ret[c].eas = ret[d].eas
        /\ calculateBroadcast(topo, ret[c].name, ret[c].eas) # ret[c].hops

C5_FreshInv ==
    /\ spc \in {"callbacks", "callbackActionSend"}
          => (DOMAIN broadcast = {OurselfName} /\ DOMAIN broadcastAll = {OurselfName})
    /\ \A e \in Entries : e.at >= appliedSeq
    /\ \A c \in Callers :
          pc[c] = "doneClosed" => \A e \in Entries : e.at >= issued[c]

\* C5: calculate() leaves exactly the local peer's entry in broadcast and
\* broadcastAll, and every entry a lookup can return was computed after the
\* last Recalculate() call applied by a replacement; once run has closed
\* the done channel of EnsureRecalculated(), every such entry was computed
\* after the Recalculate() calls that preceded that EnsureRecalculated().
C5_Fresh ==
    /\ []C5_FreshInv
    /\ [][appliedSeq' >= appliedSeq]_vars

\* after a barrier that followed a Recalculate(), Broadcast(2) was computed anew
C5_Witness ==
    \E c, d \in Callers :
        /\ pc[d] = "doneClosed"
        /\ issued[d] >= 1
        /\ spc = "actStore"
        /\ ret[c].path = "computed"
        /\ ret[c].name = 2
        /\ ret[c].hops = {3}

\* C6: Recalculate() can be called in every state of run and of the callers,
\* at most one signal is pending, and a Recalculate() call made while a
\* signal is pending changes nothing but the caller's own progress.
C6_NeverBlocks ==
    /\ [](/\ recalculate \in 0..RecalculateCap
          /\ recalcCalls < MaxRecalculate => ENABLED Recalculate)
    /\ [][(recalcCalls' # recalcCalls /\ recalculate = RecalculateCap)
             => UNCHANGED <<held, topo, tables, onChange, recalculate, spc, done, f,
                            hops, calc, cbs, cli>>]_vars

\* the second Recalculate() found the first signal still pending while run
\* was executing an action
C6_Witness ==
    /\ recalcCalls = 2
    /\ calcs = 0
    /\ recalculate = RecalculateCap
    /\ spc = "actCalculate"

\* C7 as stated: a caller that has received the result of a lookup that
\* missed finds the entry in the table.
C7_StoredBeforeReturn ==
    \A c \in Callers :
        ret[c].path = "computed" => ret[c].name \in DOMAIN Table(ret[c].eas)

\* C7: when a caller has received the result of a lookup that missed, the
\* entry is in the table with that result, or run is about to store it as
\* its very next step, before it receives any other request.
C7_StoredOrStoring ==
    \A c \in Callers :
        ret[c].path = "computed" =>
            \/ /\ ret[c].name \in DOMAIN Table(ret[c].eas)
               /\ Table(ret[c].eas)[ret[c].name].hops = ret[c].hops
            \/ /\ spc = "actStore"
               /\ f.name = ret[c].name
               /\ f.eas = ret[c].eas
               /\ hops.hops = ret[c].hops

\* the caller has its result and the entry is not stored yet
C7_Witness ==
    \E c \in Callers :
        /\ ret[c].path = "computed"
        /\ ret[c].name \notin DOMAIN Table(ret[c].eas)
        /\ spc = "actStore"

\* C8: Unicast(self) and UnicastAll(self) return (UnknownPeerName, true) in
\* every state.
C8_SelfRoute ==
    /\ Unicast(OurselfName) = <<UnknownPeerName, TRUE>>
    /\ UnicastAll(OurselfName) = <<UnknownPeerName, TRUE>>

\* after two recalculations and a lazy fill
C8_Witness ==
    /\ calcs = 2
    /\ spc = "select"
    /\ 2 \in DOMAIN unicast
    /\ 2 \in DOMAIN broadcast

\* C9: broadcast[self] and broadcastAll[self] are present in every state, no
\* action for the local peer is ever sent to run, and an idle caller's
\* Broadcast(self) / BroadcastAll(self) returns in one step whatever run is
\* doing.
C9_SelfPresent ==
    /\ OurselfName \in DOMAIN broadcast
    /\ OurselfName \in DOMAIN broadcastAll
    /\ f.name # OurselfName
    /\ \A c \in Callers :
          /\ pc[c] \in {"actionSend", "resRecv"} => arg[c].name # OurselfName
          /\ pc[c] = "idle" =>
                \A e \in BOOLEAN : ENABLED (Lookup(c, OurselfName, e) /\ pc' = pc)

\* run is about to invoke a callback, the local peer's entry is not empty
C9_Witness ==
    /\ spc = "callbacks"
    /\ cbi <= Len(cbs)
    /\ broadcast[OurselfName].hops # {}
    /\ \E c \in Callers : pc[c] = "idle"

C10_Inv ==
    /\ spc = "callbacks" =>
          (cbi \in 1..(registered + 1) /\ invoked = SubSeq(onChange, 1, cbi - 1))
    /\ spc = "callbackActionSend" => invoked = SubSeq(onChange, 1, cbi)
    /\ spc \in ActionStates => invoked = <<>>

\* C10: calculate() goes from the replacement of the tables straight to the
\* callbacks, invokes the callbacks registered before the replacement one by
\* one in the order of registration, and returns to run only when each of
\* them has been invoked once; the closure of lookupOrCalculate invokes none.
C10_Callbacks ==
    /\ []C10_Inv
    /\ [][/\ spc = "replace" => spc' \in {"replace", "callbacks"}
          /\ (spc = "callbacks" /\ spc' \notin {"callbacks", "callbackActionSend"})
                => invoked = SubSeq(onChange, 1, registered)
          /\ spc = "callbackActionSend" => spc' = "callbackActionSend"
          /\ spc \in ActionStates => invoked' = invoked]_vars

\* both registered callbacks have been invoked, in order
C10_Witness ==
    /\ spc = "callbacks"
    /\ cbi > Len(cbs)
    /\ invoked = <<1, 2>>

\* the names the peer directory does not hold; it never held them, since the
\* directory of the model only grows
AbsentNames == PeerNames \ topo.peers

C14_FilterMonotone ==
    \A n \in PeerNames : Unicast(n)[2] => UnicastAll(n)[2]

\* the tables were calculated while P1 <-> P3 was not established: P3 is
\* routable over all connections only
C14_Witness ==
    /\ calcs >= 1
    /\ UnicastAll(3) = <<3, TRUE>>
    /\ Unicast(3) = <<UnknownPeerName, FALSE>>
    /\ Unicast(2) = <<2, TRUE>>

\* u is t with one entry added for a name that t does not hold
LazyFill(t, u) ==
    \E n \in PeerNames :
        /\ n \notin DOMAIN t
        /\ DOMAIN u = DOMAIN t \cup {n}
        /\ \A m \in DOMAIN t : u[m] = t[m]

\* C15: a step that changes a table is either the replacement of all four
\* tables by the four tables calculate() has computed, or the closure's
\* store, which adds one entry for a name that one broadcast table does not
\* hold and leaves the other three tables as they are.
C15_Frame ==
    [][tables' # tables =>
         \/ /\ spc = "replace"
            /\ unicast' = calc.unicast
            /\ unicastAll' = calc.unicastAll
            /\ broadcast' = calc.broadcast
            /\ broadcastAll' = calc.broadcastAll
         \/ /\ spc = "actStore"
            /\ unicast' = unicast
            /\ unicastAll' = unicastAll
            /\ \/ broadcastAll' = broadcastAll /\ LazyFill(broadcast, broadcast')
               \/ broadcast' = broadcast /\ LazyFill(broadcastAll, broadcastAll')]_vars

\* after a recalculation, a lazy fill has added P2 to broadcastAll only
C15_Witness ==
    /\ calcs >= 1
    /\ spc = "select"
    /\ DOMAIN broadcastAll = {OurselfName, 2}
    /\ DOMAIN broadcast = {OurselfName}
    /\ DOMAIN unicast = {1, 2, 3}

C16_Inv ==
    /\ spc = "actStore" => (f.name \notin DOMAIN Table(f.eas) /\ hops.at >= appliedSeq)
    /\ \A e \in BOOLEAN, n \in PeerNames : computes[e][n] <= 1

\* C16: the tables change only in the two writing steps of run; from the
\* closure's second lookup to its store no table changes, no calculate()
\* starts or replaces the tables and no other closure is taken; what the
\* closure stores was computed after the last replacement, for a name the
\* table does not hold; calculateBroadcast runs at most once per entry
\* between two replacements.
C16_SingleWriter ==
    /\ []C16_Inv
    /\ [][/\ tables' # tables => spc \in {"replace", "actStore"}
          /\ spc \in {"actLookup", "actReply", "actCalculate", "actSend"}
                => tables' = tables
          /\ spc \in ActionStates =>
                /\ calcs' = calcs
                /\ appliedSeq' = appliedSeq
                /\ spc' \in ActionStates \cup {"select"}
                /\ spc' \in ActionStates => f' = f]_vars

\* two callers missed for the same name: one has the computed set, the
\* other one's closure finds the entry at its second lookup
C16_Witness ==
    \E c, d \in Callers :
        /\ c # d
        /\ ret[c].path = "computed"
        /\ pc[d] = "resRecv"
        /\ spc = "actReply"
        /\ f.caller = d
        /\ f.name = ret[c].name
        /\ f.eas = ret[c].eas
        /\ computes[f.eas][f.name] = 1

\* the four tables are what calculate() derives from the topology t
SnapshotOf(t) ==
    /\ unicast = calculateUnicast(t, TRUE)
    /\ unicastAll = calculateUnicast(t, FALSE)
    /\ broadcast[OurselfName].hops = calculateBroadcast(t, OurselfName, TRUE)
    /\ broadcastAll[OurselfName].hops = calculateBroadcast(t, OurselfName, FALSE)

\* C17: the four tables always stem from one state of the topology; the
\* replacement installs the four tables of one calculate() in one step, and
\* no table changes while the callbacks of that calculate() run.
C17_Snapshot ==
    /\ [](\E i \in 1..Len(Evolution) : SnapshotOf(Evolution[i]))
    /\ [][/\ (spc = "replace" /\ spc' # "replace") =>
                tables' = <<calc.unicast, calc.unicastAll, calc.broadcast,
                            calc.broadcastAll>>
          /\ spc \in {"callbacks", "callbackActionSend"} => tables' = tables]_vars

\* the second callback is about to run on tables calculated from TopoStar,
\* while the topology has moved on
C17_Witness ==
    /\ spc = "callbacks"
    /\ cbi = 2
    /\ Len(cbs) = 2
    /\ SnapshotOf(TopoStar)
    /\ topo = TopoPending

\* the distinct next hops in routes.unicastAll
NextHops == {unicastAll[n] : n \in DOMAIN unicastAll} \ {UnknownPeerName}

\* C12: RandomNeighbours(except) returns a set of next hops of unicastAll
\* that holds neither except nor UnknownPeerName and has at most
\* min(floor(log2(len(unicastAll))), number of distinct next hops) members.
C12_SamplerBound ==
    \A c \in Callers :
        ret[c].op = "random" =>
            /\ ret[c].hops \subseteq NextHops
            /\ ret[c].name \notin ret[c].hops
            /\ UnknownPeerName \notin ret[c].hops
            /\ Cardinality(ret[c].hops) <= Cardinality(NextHops)
            /\ 2 ^ Cardinality(ret[c].hops) <= Cardinality(DOMAIN unicastAll)

\* five peers in a star, P2 excluded: two of the three other neighbours
C12_Witness ==
    \E c \in Callers :
        /\ ret[c].op = "random"
        /\ ret[c].name = 2
        /\ Cardinality(ret[c].hops) = 2
        /\ Cardinality(NextHops) = 4

\* C13: RandomNeighbours(except) returns exactly
\* min(floor(log2(len(unicastAll))), available) names, where available is
\* the number of distinct next hops other than except and UnknownPeerName.
C13_SamplerSize ==
    \A c \in Callers :
        ret[c].op = "random" =>
            LET k == Cardinality(ret[c].hops)
                available == Cardinality(NextHops \ {ret[c].name})
                n == Cardinality(DOMAIN unicastAll)
            IN  /\ k <= available
                /\ 2 ^ k <= n
                /\ k = available \/ 2 ^ (k + 1) > n

\* four peers in a line: floor(log2(4)) = 2, but P2 is the only neighbour
C13_Witness ==
    \E c \in Callers :
        /\ ret[c].op = "random"
        /\ Cardinality(DOMAIN unicastAll) = 4
        /\ NextHops = {2}
        /\ ret[c].hops = {2}

\* what run may hold at one time
LockOrders ==
    {<<>>, <<PeersR>>, <<PeersR, OurselfR>>, <<RoutesR>>, <<RoutesW>>}

\* C18: run holds routes.ourself only inside routes.peers, on the way in
\* and on the way out, in calculate() and in the closure alike; it holds
\* the lock of Routes only while it holds neither of the two; and it holds
\* no lock when it invokes a callback.
C18_LockDiscipline ==
    /\ [](held \in LockOrders)
    /\ [][(invoked' # invoked /\ invoked' # <<>>) => (held = <<>> /\ held' = <<>>)]_vars

\* the closure holds both read locks for calculateBroadcast, after a
\* calculate() that ran a callback
C18_Witness ==
    /\ spc = "actSend"
    /\ held = <<PeersR, OurselfR>>
    /\ calcs >= 1
    /\ onChange # <<>>
    /\ appliedSeq >= 1

\* where run is inside calculate()
CalculateStates == {"calculate", "replace", "callbacks"}

\* C19: after a Recalculate() call, a calculate() that started after the
\* call (or after a later Recalculate() call) runs to its end, callbacks
\* included, and the tables that are then in place were computed after
\* the call; this under the fairness of LiveSpec, whatever the callers
\* submit meanwhile.
C19_EventualRecalculation ==
    \A k \in 1..MaxRecalculate :
        /\ (recalcCalls = k /\ sinceLast = 0)
              ~> (recalcCalls > k \/ (sinceLast >= 1 /\ spc \notin CalculateStates))
        /\ (recalcCalls >= k) ~> (appliedSeq >= k /\ spc \notin CalculateStates)

\* the last Recalculate() has been served by a calculate() of its own,
\* with callbacks, while callers went through barriers and lazy fills
C19_Witness ==
    /\ recalcCalls = MaxRecalculate
    /\ appliedSeq = MaxRecalculate
    /\ sinceLast >= 1
    /\ calcs = MaxRecalculate
    /\ spc = "select"
    /\ onChange # <<>>
    /\ ensureCalls >= 1
    /\ \E c \in Callers : ret[c].path = "computed"

\* C20: under the fairness of LiveSpec every caller inside
\* EnsureRecalculated() or inside a Broadcast/BroadcastAll call that missed
\* returns, and run comes back to its outer select again and again.
C20_Released ==
    /\ \A c \in Callers : (pc[c] # "idle") ~> (pc[c] = "idle")
    /\ []<>(spc = "select")

\* every caller is back: one from a miss with the computed entry, and an
\* EnsureRecalculated() has returned, after run went through a calculate()
C20_Witness ==
    /\ \A c \in Callers : pc[c] = "idle"
    /\ ret[1].path = "computed"
    /\ ensureCalls >= 1
    /\ issued[2] = 0
    /\ calcs >= 1
    /\ spc = "select"

====
